---- MODULE Spec2Model ----
(***************************************************************************)
(* Contact identity reconciliation: the POST /identify handler and the     *)
(* identifyContact service over the Contact table.                         *)
(***************************************************************************)
EXTENDS Integers, Sequences, FiniteSets, TLC

VARIABLES contacts, last, procs, overlapped, started

vars == <<contacts, last, procs, overlapped, started>>

\* what the handlers served one Store call at a time use
stepVars == <<procs, overlapped, started>>

(* ------------------------------ bounds --------------------------------- *)
\* rows the table may hold. Served one after the other, requests over Emails and
\* Phones never need more: every insert brings a value no row had before.
MaxContacts == 3

\* requests the handlers served one Store call at a time take on
MaxRequests == 4

(* ---------------------------- JS values -------------------------------- *)
Undefined == [t |-> "undefined"]
JNull == [t |-> "null"]
Str(s) == [t |-> "string", v |-> s]
Num(n) == [t |-> "number", v |-> n]

\* null in the nullable columns linkedId and deletedAt is modelled by 0;
\* autoincrement ids start at 1
NullId == 0

\* the emails and phone numbers clients send
Emails == {"a@x", "b@x"}
Phones == {"111"}

\* values the JSON body can carry in its two fields: absent, empty, a string, and
\* for the phone a number
RawEmails == {Undefined, Str("")} \cup {Str(e) : e \in Emails}
RawPhones == {Undefined, Num(0), Num(111)} \cup {Str(p) : p \in Phones}

\* JS truthiness of a body value / of a string|null argument
Truthy(x) ==
  CASE x.t = "undefined" -> FALSE
    [] x.t = "null" -> FALSE
    [] x.t = "string" -> x.v # ""
    [] x.t = "number" -> x.v # 0

DigitChar == <<"0", "1", "2", "3", "4", "5", "6", "7", "8", "9">>

RECURSIVE NumToString(_)
NumToString(n) ==
  IF n < 10 THEN DigitChar[n + 1]
  ELSE NumToString(n \div 10) \o DigitChar[(n % 10) + 1]

\* String(x) for the body values that occur
JSString(x) ==
  CASE x.t = "string" -> x.v
    [] x.t = "number" -> NumToString(x.v)
    [] x.t = "undefined" -> "undefined"
    [] x.t = "null" -> "null"

\* a variant that converts without testing the value first: String(email)
NormalizeAlways(x) == Str(JSString(x))

\* email ? String(email) : null
Normalize(x) == IF Truthy(x) THEN Str(JSString(x)) ELSE JNull

(* --------------------------- Contact table ----------------------------- *)
Ids(cs) == DOMAIN cs

\* every ordering of a finite set (a query result without ORDER BY)
RECURSIVE Orderings(_)
Orderings(S) ==
  IF S = {} THEN {<<>>}
  ELSE UNION {{<<x>> \o o : o \in Orderings(S \ {x})} : x \in S}

\* a variant whose OR has the email clause only
FindMatchingEmailOnly(cs, email, phoneNumber) ==
  {i \in Ids(cs) : cs[i].deletedAt = NullId /\ Truthy(email) /\ cs[i].email = email}

\* prisma.contact.findMany({where: {deletedAt: null, OR: [...]}})
FindMatching(cs, email, phoneNumber) ==
  {i \in Ids(cs) :
     /\ cs[i].deletedAt = NullId
     /\ \/ Truthy(email) /\ cs[i].email = email
        \/ Truthy(phoneNumber) /\ cs[i].phoneNumber = phoneNumber}

\* a variant that takes every matched contact for its own root
CollectPrimaryIdsOwn(cs, matching) == matching

\* the loop collecting the root primary of every matched contact
CollectPrimaryIds(cs, matching) ==
  {i \in matching : cs[i].linkPrecedence = "primary"}
    \cup {cs[i].linkedId : i \in {j \in matching : cs[j].linkPrecedence # "primary"
                                                    /\ cs[j].linkedId # NullId}}

\* a variant ordering by createdAt "desc"
OrderedByCreatedAtDesc(cs, ids) ==
  {f \in Orderings(ids) :
     \A i, j \in DOMAIN f : i < j => cs[f[i]].createdAt >= cs[f[j]].createdAt}

\* orderBy: {createdAt: "asc"}; rows with equal createdAt come in any order
OrderedByCreatedAt(cs, ids) ==
  {f \in Orderings(ids) :
     \A i, j \in DOMAIN f : i < j => cs[f[i]].createdAt <= cs[f[j]].createdAt}

\* prisma.contact.findMany({where: {id: {in: primaryIds}, deletedAt: null}, orderBy})
FindPrimaryContacts(cs, primaryIds) ==
  OrderedByCreatedAt(cs, {i \in primaryIds \cap Ids(cs) : cs[i].deletedAt = NullId})

\* a variant with the two ids exchanged: the true primary is put under p
DemoteSwapped(cs, p, truePrimary) ==
  [cs EXCEPT ![truePrimary] = [@ EXCEPT !.linkPrecedence = "secondary",
                                        !.linkedId = p]]

\* a variant whose data sets linkedId and leaves linkPrecedence
DemoteLinkOnly(cs, p, truePrimary) ==
  [cs EXCEPT ![p] = [@ EXCEPT !.linkedId = truePrimary]]

\* prisma.contact.update({where: {id: p.id}, data: {secondary, linkedId}})
\* (the updatedAt column is read by nothing and is left out of the record)
Demote(cs, p, truePrimary) ==
  [cs EXCEPT ![p] = [@ EXCEPT !.linkPrecedence = "secondary",
                              !.linkedId = truePrimary]]

\* a variant whose data also sets linkPrecedence back to "primary"
ReLinkPromoting(cs, p, truePrimary) ==
  [i \in Ids(cs) |->
     IF cs[i].linkedId = p /\ cs[i].deletedAt = NullId
     THEN [cs[i] EXCEPT !.linkedId = truePrimary, !.linkPrecedence = "primary"]
     ELSE cs[i]]

\* prisma.contact.updateMany({where: {linkedId: p.id, deletedAt: null}, data: {linkedId}})
ReLink(cs, p, truePrimary) ==
  [i \in Ids(cs) |->
     IF cs[i].linkedId = p /\ cs[i].deletedAt = NullId
     THEN [cs[i] EXCEPT !.linkedId = truePrimary]
     ELSE cs[i]]

\* a variant of the loop without the updateMany
RECURSIVE MergeLoopDemoteOnly(_, _, _)
MergeLoopDemoteOnly(cs, toMerge, truePrimary) ==
  IF toMerge = <<>> THEN cs
  ELSE MergeLoopDemoteOnly(Demote(cs, Head(toMerge), truePrimary), Tail(toMerge),
                           truePrimary)

\* for (const p of toMerge) { update; updateMany }
RECURSIVE MergeLoop(_, _, _)
MergeLoop(cs, toMerge, truePrimary) ==
  IF toMerge = <<>> THEN cs
  ELSE MergeLoop(ReLink(Demote(cs, Head(toMerge), truePrimary), Head(toMerge), truePrimary),
                 Tail(toMerge), truePrimary)

\* a variant that fetches no secondary
FindSecondariesNone(cs, truePrimary) == {<<>>}

\* prisma.contact.findMany({where: {linkedId: truePrimary.id, deletedAt: null}})
FindSecondaries(cs, truePrimary) ==
  Orderings({i \in Ids(cs) : cs[i].linkedId = truePrimary /\ cs[i].deletedAt = NullId})

\* the id the table assigns to a new row: ids grow with creation and are not reused
NextId(cs) == Len(cs) + 1

\* prisma.contact.create({data}): the table assigns id and createdAt
CreateContact(cs, email, phoneNumber, linkPrecedence, linkedId, t) ==
  Append(cs, [id |-> NextId(cs), email |-> email, phoneNumber |-> phoneNumber,
              linkPrecedence |-> linkPrecedence, linkedId |-> linkedId,
              createdAt |-> t, deletedAt |-> NullId])

\* a variant that reads the email of the true primary only
AllEmailsOfPrimary(allContacts) ==
  {allContacts[k].email.v : k \in {j \in {1} : Truthy(allContacts[j].email)}}

\* new Set(allContacts.map(c => c.email).filter(Boolean))
AllEmails(allContacts) ==
  {allContacts[k].email.v : k \in {j \in DOMAIN allContacts : Truthy(allContacts[j].email)}}

AllPhones(allContacts) ==
  {allContacts[k].phoneNumber.v :
     k \in {j \in DOMAIN allContacts : Truthy(allContacts[j].phoneNumber)}}

\* a variant with (isNewEmail && isNewPhone)
HasNewInfoBoth(email, phoneNumber, allContacts) ==
  /\ Truthy(email) /\ email.v \notin AllEmails(allContacts)
  /\ Truthy(phoneNumber) /\ phoneNumber.v \notin AllPhones(allContacts)

\* (isNewEmail || isNewPhone)
HasNewInfo(email, phoneNumber, allContacts) ==
  \/ Truthy(email) /\ email.v \notin AllEmails(allContacts)
  \/ Truthy(phoneNumber) /\ phoneNumber.v \notin AllPhones(allContacts)

\* a variant with allSecondaries.unshift(newSecondary)
PushCreatedFirst(allSecondaries, newSecondary) == <<newSecondary>> \o allSecondaries

\* allSecondaries.push(newSecondary)
PushCreated(allSecondaries, newSecondary) == Append(allSecondaries, newSecondary)

(* --------------------------- buildResponse ----------------------------- *)
Includes(seq, x) == \E k \in DOMAIN seq : seq[k] = x

\* a variant without the includes() test
PushAlways(acc, value) == IF Truthy(value) THEN Append(acc, value.v) ELSE acc

\* if (s.email && !emails.includes(s.email)) emails.push(s.email)
PushIfNew(acc, value) ==
  IF Truthy(value) /\ ~Includes(acc, value.v) THEN Append(acc, value.v) ELSE acc

RECURSIVE CollectValues(_, _, _)
CollectValues(acc, secondaries, field) ==
  IF secondaries = <<>> THEN acc
  ELSE CollectValues(PushIfNew(acc, Head(secondaries)[field]), Tail(secondaries), field)

\* if (primary.email) emails.push(primary.email)
PrimaryValue(primary, field) ==
  IF Truthy(primary[field]) THEN <<primary[field].v>> ELSE <<>>

\* a variant that reads the values of the primary only
buildResponsePrimaryOnly(primary, secondaries) ==
  [primaryContatctId |-> primary.id,
   emails |-> PrimaryValue(primary, "email"),
   phoneNumbers |-> PrimaryValue(primary, "phoneNumber"),
   secondaryContactIds |-> [k \in DOMAIN secondaries |-> secondaries[k].id]]

buildResponse(primary, secondaries) ==
  [primaryContatctId |-> primary.id,
   emails |-> CollectValues(PrimaryValue(primary, "email"), secondaries, "email"),
   phoneNumbers |-> CollectValues(PrimaryValue(primary, "phoneNumber"), secondaries,
                                  "phoneNumber"),
   secondaryContactIds |-> [k \in DOMAIN secondaries |-> secondaries[k].id]]

NoResponse ==
  [primaryContatctId |-> NullId, emails |-> <<>>, phoneNumbers |-> <<>>,
   secondaryContactIds |-> <<>>]

\* now() of the database at an insert: not before the createdAt of an earlier row,
\* and equal to it when both inserts fall into the same clock tick
Clock(cs) == IF cs = <<>> THEN 1 ELSE cs[Len(cs)].createdAt
Times(cs) == IF cs = <<>> THEN {1} ELSE {Clock(cs), Clock(cs) + 1}

(* ------------------------------ handler -------------------------------- *)
\* a variant that rejects only fields that are undefined
IsInvalidStrict(rawEmail, rawPhone) == rawEmail = Undefined /\ rawPhone = Undefined

\* a variant without the validation
IsInvalidNever(rawEmail, rawPhone) == FALSE

\* if (!email && !phoneNumber) return res.status(400)
IsInvalid(rawEmail, rawPhone) == ~Truthy(rawEmail) /\ ~Truthy(rawPhone)

NoCall == [email |-> JNull, phoneNumber |-> JNull]

NoPrev == [merged |-> FALSE, created |-> FALSE, primaryContatctId |-> NullId]

\* no request under observation
Idle ==
  [body |-> [email |-> Undefined, phoneNumber |-> Undefined], req |-> NoCall,
   status |-> 0, resp |-> NoResponse, pre |-> <<>>, matching |-> {},
   primaryContacts |-> <<>>, created |-> NullId, storeCalls |-> 0,
   repeat |-> FALSE, prev |-> NoPrev]

\* the requests the server may be serving at the same time
Procs == {1, 2}

\* a handler that is not inside identifyContact; failed tells whether the
\* request it answered last ended in the catch branch (status 500)
NotRunning(failed) ==
  [pc |-> "idle", email |-> JNull, phoneNumber |-> JNull, primaryIds |-> {},
   primaryContacts |-> <<>>, k |-> 0, failed |-> failed]

Init ==
  /\ contacts = <<>>
  /\ last = Idle
  /\ procs = [p \in Procs |-> NotRunning(FALSE)]
  /\ overlapped = FALSE
  /\ started = 0

\* the next request: any body, or, while the request served right before it is
\* still under observation, the same body again
Arrives(rawEmail, rawPhone) ==
  last.status = 0 \/ last.body = [email |-> rawEmail, phoneNumber |-> rawPhone]

\* the server keeps nothing of a request it has answered
Forget ==
  /\ last.status # 0
  /\ last' = Idle
  /\ UNCHANGED <<contacts, stepVars>>

\* what the request just served did: its body, the arguments identifyContact got,
\* the HTTP status and contact sent back, the table before it, the rows and roots
\* it fetched, the id it created; and, when it repeats the arguments of the call
\* served right before it, whether that call merged or created a row and the
\* primary it returned
Record(body, req, status, resp, matching, primaryContacts, created, storeCalls) ==
  LET repeat == status = 200 /\ last.status = 200 /\ req = last.req
  IN last' = [body |-> body, req |-> req, status |-> status, resp |-> resp,
              pre |-> contacts, matching |-> matching,
              primaryContacts |-> primaryContacts, created |-> created,
              storeCalls |-> storeCalls, repeat |-> repeat,
              prev |-> IF repeat
                       THEN [merged |-> Len(last.primaryContacts) > 1,
                             created |-> last.created # NullId,
                             primaryContatctId |-> last.resp.primaryContatctId]
                       ELSE NoPrev]

\* POST /identify with neither email nor phoneNumber: 400, identifyContact not called
PostInvalid ==
  \E rawEmail \in RawEmails, rawPhone \in RawPhones :
    /\ Arrives(rawEmail, rawPhone)
    /\ IsInvalid(rawEmail, rawPhone)
    /\ Record([email |-> rawEmail, phoneNumber |-> rawPhone], NoCall, 400, NoResponse,
              {}, <<>>, NullId, 0)
    /\ UNCHANGED <<contacts, stepVars>>

\* POST /identify, identifyContact step 2: no match, create a new primary
PostNoMatch ==
  \E rawEmail \in RawEmails, rawPhone \in RawPhones, t \in Times(contacts) :
    LET email == Normalize(rawEmail)
        phoneNumber == Normalize(rawPhone)
        matching == FindMatching(contacts, email, phoneNumber)
        cs1 == CreateContact(contacts, email, phoneNumber, "primary", NullId, t)
    IN /\ Arrives(rawEmail, rawPhone)
       /\ ~IsInvalid(rawEmail, rawPhone)
       /\ matching = {}
       /\ Len(contacts) < MaxContacts
       /\ contacts' = cs1
       /\ Record([email |-> rawEmail, phoneNumber |-> rawPhone],
                 [email |-> email, phoneNumber |-> phoneNumber], 200,
                 buildResponse(cs1[Len(cs1)], <<>>), matching, <<>>, Len(cs1), 2)
       /\ UNCHANGED stepVars

\* POST /identify, identifyContact steps 3-5: resolve roots, merge, add a secondary
PostMatch ==
  \E rawEmail \in RawEmails, rawPhone \in RawPhones :
    LET email == Normalize(rawEmail)
        phoneNumber == Normalize(rawPhone)
        body == [email |-> rawEmail, phoneNumber |-> rawPhone]
        req == [email |-> email, phoneNumber |-> phoneNumber]
        matching == FindMatching(contacts, email, phoneNumber)
        primaryIds == CollectPrimaryIds(contacts, matching)
    IN /\ Arrives(rawEmail, rawPhone)
       /\ ~IsInvalid(rawEmail, rawPhone)
       /\ matching # {}
       /\ \E primaryContacts \in FindPrimaryContacts(contacts, primaryIds) :
            IF primaryContacts = <<>>
            THEN \* truePrimary is undefined: TypeError, caught by the handler
                 /\ Record(body, req, 500, NoResponse, matching, <<>>, NullId, 2)
                 /\ UNCHANGED <<contacts, stepVars>>
            ELSE LET truePrimary == contacts[primaryContacts[1]]
                     toMerge == Tail(primaryContacts)
                     cs1 == MergeLoop(contacts, toMerge, truePrimary.id)
                 IN \E secondaryIds \in FindSecondaries(cs1, truePrimary.id), t \in Times(cs1) :
                      LET allSecondaries == [k \in DOMAIN secondaryIds |-> cs1[secondaryIds[k]]]
                          allContacts == <<truePrimary>> \o allSecondaries
                          isNew == HasNewInfo(email, phoneNumber, allContacts)
                          cs2 == IF isNew
                                 THEN CreateContact(cs1, email, phoneNumber, "secondary",
                                                    truePrimary.id, t)
                                 ELSE cs1
                          pushed == IF isNew THEN PushCreated(allSecondaries, cs2[Len(cs2)])
                                    ELSE allSecondaries
                      IN /\ Len(cs2) <= MaxContacts
                         \* t is read by the insert only
                         /\ isNew \/ t = Clock(cs1)
                         /\ contacts' = cs2
                         /\ Record(body, req, 200, buildResponse(truePrimary, pushed),
                                   matching, primaryContacts,
                                   IF isNew THEN Len(cs2) ELSE NullId,
                                   3 + 2 * Len(toMerge) + (IF isNew THEN 1 ELSE 0))
                         /\ UNCHANGED stepVars

Next == Forget \/ PostInvalid \/ PostNoMatch \/ PostMatch

Spec == Init /\ [][Next]_vars

(* ------------------- the handler, one Store call at a time -------------- *)
\* Each await of identifyContact is one step: the Store call takes effect at
\* once, together with the synchronous code around it. A handler keeps, of the
\* rows it fetched, their ids: id, email, phoneNumber and createdAt of a row
\* never change, and linkPrecedence and linkedId of a fetched row are read in
\* the same step. overlapped tells whether identifyContact has ever been
\* called while another call of it was running.

\* res.status(status).json(...): the handler is done
Return(p, status) == procs' = [procs EXCEPT ![p] = NotRunning(status = 500)]

\* POST /identify arrives: validation, then the first findMany and the loop
\* over its result. The handlers are interchangeable: an arriving request
\* takes the free one of smallest number.
Receive(p) ==
  \E rawEmail \in RawEmails, rawPhone \in RawPhones :
    LET email == Normalize(rawEmail)
        phoneNumber == Normalize(rawPhone)
        matching == FindMatching(contacts, email, phoneNumber)
    IN /\ procs[p].pc = "idle"
       /\ \A q \in Procs : q < p => procs[q].pc # "idle"
       /\ started < MaxRequests
       /\ started' = started + 1
       /\ IF IsInvalid(rawEmail, rawPhone)
          THEN /\ Return(p, 400)
               /\ UNCHANGED overlapped
          ELSE /\ procs' = [procs EXCEPT ![p] =
                    [pc |-> IF matching = {} THEN "createPrimary" ELSE "findPrimaries",
                     email |-> email, phoneNumber |-> phoneNumber,
                     primaryIds |-> CollectPrimaryIds(contacts, matching),
                     primaryContacts |-> <<>>, k |-> 0, failed |-> FALSE]]
               /\ overlapped' = (overlapped \/ \E q \in Procs \ {p} : procs[q].pc # "idle")
       /\ UNCHANGED <<contacts, last>>

\* step 2: prisma.contact.create of a primary, then return
CreatePrimary(p) ==
  \E t \in Times(contacts) :
    /\ procs[p].pc = "createPrimary"
    /\ Len(contacts) < MaxContacts
    /\ contacts' = CreateContact(contacts, procs[p].email, procs[p].phoneNumber,
                                 "primary", NullId, t)
    /\ Return(p, 200)
    /\ UNCHANGED <<last, overlapped, started>>

\* step 3: the ordered findMany of the roots; truePrimary = primaryContacts[0]
FindPrimaries(p) ==
  \E primaryContacts \in FindPrimaryContacts(contacts, procs[p].primaryIds) :
    /\ procs[p].pc = "findPrimaries"
    /\ IF primaryContacts = <<>>
       THEN Return(p, 500)
       ELSE procs' = [procs EXCEPT ![p] =
              [@ EXCEPT !.pc = IF Len(primaryContacts) > 1 THEN "update"
                               ELSE "findSecondaries",
                        !.primaryIds = {},
                        !.primaryContacts = primaryContacts,
                        !.k = IF Len(primaryContacts) > 1 THEN 2 ELSE 0]]
    /\ UNCHANGED <<contacts, last, overlapped, started>>

\* step 3b, first call of the loop body: prisma.contact.update of p
UpdateOne(p) ==
  /\ procs[p].pc = "update"
  /\ contacts' = Demote(contacts, procs[p].primaryContacts[procs[p].k],
                        procs[p].primaryContacts[1])
  /\ procs' = [procs EXCEPT ![p].pc = "updateMany"]
  /\ UNCHANGED <<last, overlapped, started>>

\* step 3b, second call of the loop body: prisma.contact.updateMany, then the
\* next p of toMerge or the end of the loop
UpdateMany(p) ==
  /\ procs[p].pc = "updateMany"
  /\ contacts' = ReLink(contacts, procs[p].primaryContacts[procs[p].k],
                        procs[p].primaryContacts[1])
  /\ procs' = [procs EXCEPT ![p] =
       IF procs[p].k < Len(procs[p].primaryContacts)
       THEN [@ EXCEPT !.pc = "update", !.k = @ + 1]
       ELSE [@ EXCEPT !.pc = "findSecondaries", !.k = 0]]
  /\ UNCHANGED <<last, overlapped, started>>

\* steps 4 and 5: findMany of the secondaries and the novelty check; without
\* new information the handler returns
FindSecondariesStep(p) ==
  /\ procs[p].pc = "findSecondaries"
  /\ LET truePrimary == procs[p].primaryContacts[1]
     IN \E secondaryIds \in FindSecondaries(contacts, truePrimary) :
          LET allSecondaries == [k \in DOMAIN secondaryIds |-> contacts[secondaryIds[k]]]
              allContacts == <<contacts[truePrimary]>> \o allSecondaries
          IN IF HasNewInfo(procs[p].email, procs[p].phoneNumber, allContacts)
             THEN procs' = [procs EXCEPT ![p].pc = "createSecondary"]
             ELSE Return(p, 200)
  /\ UNCHANGED <<contacts, last, overlapped, started>>

\* step 5: prisma.contact.create of the secondary, then return
CreateSecondary(p) ==
  \E t \in Times(contacts) :
    /\ procs[p].pc = "createSecondary"
    /\ Len(contacts) < MaxContacts
    /\ contacts' = CreateContact(contacts, procs[p].email, procs[p].phoneNumber,
                                 "secondary", procs[p].primaryContacts[1], t)
    /\ Return(p, 200)
    /\ UNCHANGED <<last, overlapped, started>>

\* a Store call throws, be it the first findMany of an arriving request or the
\* next call of a running one: the catch of the handler answers 500 and nothing
\* is undone
StoreFails(p) ==
  /\ procs[p].pc = "idle" => started < MaxRequests
  /\ started' = IF procs[p].pc = "idle" THEN started + 1 ELSE started
  /\ Return(p, 500)
  /\ UNCHANGED <<contacts, last, overlapped>>

Step(p) ==
  \/ Receive(p)
  \/ CreatePrimary(p)
  \/ FindPrimaries(p)
  \/ UpdateOne(p)
  \/ UpdateMany(p)
  \/ FindSecondariesStep(p)
  \/ CreateSecondary(p)

\* concurrent requests, no Store failure
NextConc == \E p \in Procs : Step(p)

SpecConc == Init /\ [][NextConc]_vars

\* one request at a time, any Store call may fail
NextFail == Step(1) \/ StoreFails(1)

SpecFail == Init /\ [][NextFail]_vars

TypeOK ==
  /\ \A i \in Ids(contacts) : contacts[i].createdAt \in 1..i
  /\ Len(contacts) <= MaxContacts
(* ------------------------------ properties ----------------------------- *)
Range(seq) == {seq[k] : k \in DOMAIN seq}
NoDuplicates(seq) == \A i, j \in DOMAIN seq : i # j => seq[i] # seq[j]

\* the request under observation was answered by identifyContact
Served == last.status = 200

\* the group root of a record: itself if primary, else the record linkedId names
RootOf(cs, i) == IF cs[i].linkPrecedence = "primary" THEN i ELSE cs[i].linkedId

\* the roots the matched records resolved to, in the table as the call found it
Roots == {RootOf(last.pre, i) : i \in last.matching}

\* the members of the group of primary a in table cs
Group(cs, a) == {i \in Ids(cs) : i = a \/ cs[i].linkedId = a}

GroupEmails(cs, G) == {cs[i].email.v : i \in {j \in G : cs[j].email # JNull}}
GroupPhones(cs, G) == {cs[i].phoneNumber.v : i \in {j \in G : cs[j].phoneNumber # JNull}}

\* C1: oldest-wins merge. When the matched records resolve to two or more roots,
\* after the call a root of earliest createdAt is Primary with linkedId null, every
\* other root is Secondary linked to it, the response names it as primary and lists
\* every demoted root among the secondaries.
OldestWinsMerge ==
  (Served /\ Cardinality(Roots) >= 2) =>
    \E a \in Roots :
      /\ \A r \in Roots : last.pre[a].createdAt <= last.pre[r].createdAt
      /\ contacts[a].linkPrecedence = "primary"
      /\ contacts[a].linkedId = NullId
      /\ \A r \in Roots \ {a} :
           /\ contacts[r].linkPrecedence = "secondary"
           /\ contacts[r].linkedId = a
           /\ r \in Range(last.resp.secondaryContactIds)
      /\ last.resp.primaryContatctId = a

\* a merge whose oldest root was reached through the phone only, the younger
\* root through the email
OldestWinsMergeWitness ==
  /\ Served
  /\ Cardinality(Roots) = 2
  /\ \E a \in Roots, b \in Roots :
       /\ last.pre[a].createdAt < last.pre[b].createdAt
       /\ contacts[b].linkedId = a
       /\ \A m \in last.matching :
            RootOf(last.pre, m) = a => last.pre[m].email # last.req.email
       /\ \E m \in last.matching :
            RootOf(last.pre, m) = b /\ last.pre[m].email = last.req.email

\* C2: one level of indirection. In every state between calls, every Secondary has
\* a linkedId naming an existing record that is Primary.
OneLevelOfIndirection ==
  \A i \in Ids(contacts) :
    contacts[i].linkPrecedence = "secondary" =>
      /\ contacts[i].linkedId \in Ids(contacts)
      /\ contacts[contacts[i].linkedId].linkPrecedence = "primary"

\* a call has re-pointed a secondary from a demoted root to the true primary
OneLevelOfIndirectionWitness ==
  /\ Served
  /\ \E i \in Ids(last.pre) :
       /\ last.pre[i].linkPrecedence = "secondary"
       /\ contacts[i].linkedId # last.pre[i].linkedId

\* the roots this call demoted
Demoted ==
  {p \in Ids(last.pre) : /\ last.pre[p].linkPrecedence = "primary"
                         /\ contacts[p].linkPrecedence = "secondary"}

\* C3: transitive re-pointing. When a call demotes root p under the true primary A,
\* every record whose linkedId was p before the call has linkedId A after it, and
\* no record has linkedId p once the call has returned.
TransitiveRepointing ==
  Served =>
    \A p \in Demoted :
      /\ contacts[p].linkedId = last.resp.primaryContatctId
      /\ \A i \in Ids(last.pre) :
           last.pre[i].linkedId = p => contacts[i].linkedId = last.resp.primaryContatctId
      /\ \A i \in Ids(contacts) : contacts[i].linkedId # p

\* a demoted root that had a secondary of its own
TransitiveRepointingWitness ==
  /\ Served
  /\ \E p \in Demoted : \E i \in Ids(last.pre) : last.pre[i].linkedId = p

\* what the body gives for a field: its text, or null when absent or empty
Given(x) == IF Truthy(x) THEN Str(JSString(x)) ELSE JNull
GivenList(x) == IF Truthy(x) THEN <<JSString(x)>> ELSE <<>>

\* a body that gives an email or a phone, neither of which any record has
NoMatchCase ==
  /\ last.status # 0
  /\ Truthy(last.body.email) \/ Truthy(last.body.phoneNumber)
  /\ \A i \in Ids(last.pre) :
       /\ ~(Truthy(last.body.email) /\ last.pre[i].email = Given(last.body.email))
       /\ ~(Truthy(last.body.phoneNumber)
            /\ last.pre[i].phoneNumber = Given(last.body.phoneNumber))

\* C4: no match creates a primary. The call succeeds, appends exactly one record,
\* Primary with linkedId null and the given email and phone, leaves the existing
\* records as they were and answers with the new id, no secondaries, and the given
\* email and phone as the only values.
NoMatchCreatesPrimary ==
  NoMatchCase =>
    /\ last.status = 200
    /\ Len(contacts) = Len(last.pre) + 1
    /\ SubSeq(contacts, 1, Len(last.pre)) = last.pre
    /\ LET c == contacts[Len(contacts)]
       IN /\ c.linkPrecedence = "primary"
          /\ c.linkedId = NullId
          /\ c.email = Given(last.body.email)
          /\ c.phoneNumber = Given(last.body.phoneNumber)
          /\ c.id = Len(contacts)
          /\ \A i \in Ids(last.pre) : last.pre[i].id # c.id
          /\ last.resp = [primaryContatctId |-> c.id,
                          emails |-> GivenList(last.body.email),
                          phoneNumbers |-> GivenList(last.body.phoneNumber),
                          secondaryContactIds |-> <<>>]

\* a phone-only request (its email field empty) that matched nothing in a table
\* that already had records
NoMatchCreatesPrimaryWitness ==
  /\ NoMatchCase
  /\ last.pre # <<>>
  /\ ~Truthy(last.body.email)
  /\ last.resp.emails = <<>>
  /\ Len(last.resp.phoneNumbers) = 1
\* the true primary's group once the merge is done, without the record this call
\* may have created
ResolvedGroup == Group(contacts, last.resp.primaryContatctId) \cap Ids(last.pre)

NovelEmail ==
  last.req.email # JNull /\ last.req.email.v \notin GroupEmails(contacts, ResolvedGroup)
NovelPhone ==
  /\ last.req.phoneNumber # JNull
  /\ last.req.phoneNumber.v \notin GroupPhones(contacts, ResolvedGroup)

\* C5: conditional secondary creation. With at least one match, the call creates
\* exactly one record (Secondary, linked to the true primary, email and phone as
\* given) when the request's email or phone is absent from the resolved group, and
\* the novel value is in the response; it creates none when both are in the group.
ConditionalSecondaryCreation ==
  (Served /\ last.matching # {}) =>
    IF NovelEmail \/ NovelPhone
    THEN /\ Len(contacts) = Len(last.pre) + 1
         /\ contacts[Len(contacts)] =
              [id |-> Len(contacts), email |-> last.req.email,
               phoneNumber |-> last.req.phoneNumber, linkPrecedence |-> "secondary",
               linkedId |-> last.resp.primaryContatctId,
               createdAt |-> contacts[Len(contacts)].createdAt, deletedAt |-> NullId]
         /\ NovelEmail => last.req.email.v \in Range(last.resp.emails)
         /\ NovelPhone => last.req.phoneNumber.v \in Range(last.resp.phoneNumbers)
    ELSE Len(contacts) = Len(last.pre)

\* a request whose email is known to the group and whose phone is new to it
ConditionalSecondaryCreationWitness ==
  /\ Served
  /\ last.matching # {}
  /\ last.req.email # JNull
  /\ ~NovelEmail
  /\ NovelPhone
  /\ Len(contacts) = Len(last.pre) + 1

\* C6: exact repeat is a pure lookup. A call with the arguments of the call served
\* right before it creates no record: the table and the group have as many records
\* after it as before it.
ExactRepeatIsPureLookup ==
  last.repeat =>
    /\ Len(contacts) = Len(last.pre)
    /\ Cardinality(Group(contacts, last.resp.primaryContatctId))
         = Cardinality(Group(last.pre, last.prev.primaryContatctId))

\* the repeat of a call that created a secondary
ExactRepeatIsPureLookupWitness ==
  /\ last.repeat
  /\ last.prev.created
  /\ last.pre[Len(last.pre)].linkPrecedence = "secondary"

\* C7: idempotent merge. Re-running a request that triggered a merge finds one
\* root, changes no record's linkPrecedence or linkedId and returns the same
\* primary.
IdempotentMerge ==
  (last.repeat /\ last.prev.merged) =>
    /\ Cardinality(Roots) = 1
    /\ Len(last.primaryContacts) = 1
    /\ \A i \in Ids(last.pre) :
         /\ contacts[i].linkPrecedence = last.pre[i].linkPrecedence
         /\ contacts[i].linkedId = last.pre[i].linkedId
    /\ last.resp.primaryContatctId = last.prev.primaryContatctId

\* the repeat of a call that merged two roots
IdempotentMergeWitness ==
  /\ last.repeat
  /\ last.prev.merged
  /\ \E i \in Ids(contacts) : contacts[i].linkPrecedence = "secondary"

\* the primary's value first, no empty entry, no duplicate, and as a set the
\* distinct values of the returned primary's group in the table
ValueListOK(list, primaryValue, groupValues) ==
  /\ primaryValue # JNull => (list # <<>> /\ list[1] = primaryValue.v)
  /\ \A k \in DOMAIN list : list[k] # ""
  /\ NoDuplicates(list)
  /\ Range(list) = groupValues

\* C8: response value lists. emails starts with the primary's email when it has
\* one, has no empty entry and no duplicate, and as a set equals the distinct
\* non-null emails of the primary and of the records linked to it when the call
\* returns; the same for phoneNumbers.
ResponseValueLists ==
  Served =>
    LET a == last.resp.primaryContatctId
    IN /\ ValueListOK(last.resp.emails, contacts[a].email,
                      GroupEmails(contacts, Group(contacts, a)))
       /\ ValueListOK(last.resp.phoneNumbers, contacts[a].phoneNumber,
                      GroupPhones(contacts, Group(contacts, a)))

\* a group in which a secondary repeats the primary's phone and adds an email
ResponseValueListsWitness ==
  /\ Served
  /\ LET a == last.resp.primaryContatctId
     IN /\ contacts[a].phoneNumber # JNull
        /\ \E i \in Group(contacts, a) \ {a} :
             contacts[i].phoneNumber = contacts[a].phoneNumber
        /\ Len(last.resp.phoneNumbers) = 1
        /\ Len(last.resp.emails) = 2

\* C9: secondaryContactIds. When a match was found it lists exactly the records
\* whose linkedId is primaryContactId when the call returns, each once, never the
\* primary, and the secondary this call created, if any, last.
SecondaryContactIds ==
  (Served /\ last.matching # {}) =>
    LET ids == last.resp.secondaryContactIds
        a == last.resp.primaryContatctId
    IN /\ Range(ids) = {i \in Ids(contacts) : contacts[i].linkedId = a}
       /\ NoDuplicates(ids)
       /\ a \notin Range(ids)
       /\ Len(contacts) > Len(last.pre) => (ids # <<>> /\ ids[Len(ids)] = Len(contacts))

\* a call that added a secondary to a group that already had one
SecondaryContactIdsWitness ==
  /\ Served
  /\ last.matching # {}
  /\ Len(contacts) > Len(last.pre)
  /\ Len(last.resp.secondaryContactIds) >= 2

\* a body field that is absent or empty
AbsentOrEmpty(x) == x = Undefined \/ x = Str("")

\* C10: invalid input. A request with both email and phoneNumber absent or empty is
\* answered 400 without any Store call, and the table is unchanged.
InvalidInputRejected ==
  (last.status # 0 /\ AbsentOrEmpty(last.body.email)
     /\ AbsentOrEmpty(last.body.phoneNumber)) =>
    /\ last.status = 400
    /\ last.storeCalls = 0
    /\ contacts = last.pre

\* a request with an empty email and no phone, rejected on a table with records
InvalidInputRejectedWitness ==
  /\ last.status = 400
  /\ last.body = [email |-> Str(""), phoneNumber |-> Undefined]
  /\ contacts # <<>>
\* C12: linkedId/precedence consistency. After every completed call a record has a
\* non-null linkedId exactly when it is Secondary, every Primary has linkedId null,
\* and no record's linkedId is its own id.
LinkedIdMatchesPrecedence ==
  \A i \in Ids(contacts) :
    /\ (contacts[i].linkedId # NullId) <=> (contacts[i].linkPrecedence = "secondary")
    /\ contacts[i].linkPrecedence = "primary" => contacts[i].linkedId = NullId
    /\ contacts[i].linkedId # i

\* a table holding a primary, a root demoted by the last call and a created secondary
LinkedIdMatchesPrecedenceWitness ==
  /\ Served
  /\ Demoted # {}
  /\ \E i \in Ids(last.pre) : last.pre[i].linkPrecedence = "secondary"
  /\ \E i \in Ids(contacts) : contacts[i].linkPrecedence = "primary"

\* C14: the primary is the oldest of its group. For every Primary P and every record
\* S linked to it, P.createdAt <= S.createdAt and P.id < S.id.
PrimaryIsOldestOfGroup ==
  \A P \in Ids(contacts), S \in Ids(contacts) :
    (contacts[P].linkPrecedence = "primary" /\ contacts[S].linkedId = P) =>
      /\ contacts[P].createdAt <= contacts[S].createdAt
      /\ P < S

\* the roots of earliest createdAt among those a call resolved
EarliestRoots ==
  {r \in Roots : \A q \in Roots : last.pre[r].createdAt <= last.pre[q].createdAt}

Min(S) == CHOOSE x \in S : \A y \in S : x <= y

\* C17: deterministic tie-break. When two or more resolved roots share the earliest
\* createdAt, the one of smallest id stays Primary and is the primaryContactId.
DeterministicTieBreak ==
  (Served /\ Cardinality(EarliestRoots) >= 2) =>
    /\ last.resp.primaryContatctId = Min(EarliestRoots)
    /\ contacts[Min(EarliestRoots)].linkPrecedence = "primary"

\* C18: a shared identifier implies the same group. Two records with the same
\* non-null email or the same non-null phoneNumber resolve to the same root.
SharedIdentifierSameGroup ==
  \A i \in Ids(contacts), j \in Ids(contacts) :
    (\/ contacts[i].email # JNull /\ contacts[i].email = contacts[j].email
     \/ contacts[i].phoneNumber # JNull /\ contacts[i].phoneNumber = contacts[j].phoneNumber)
      => RootOf(contacts, i) = RootOf(contacts, j)

\* the record a call created shares its phone with a secondary of the group it joined
SharedIdentifierSameGroupWitness ==
  /\ Served
  /\ last.created # NullId
  /\ \E i \in Ids(last.pre) :
       /\ contacts[i].linkPrecedence = "secondary"
       /\ contacts[i].phoneNumber # JNull
       /\ contacts[i].phoneNumber = contacts[last.created].phoneNumber
       /\ contacts[i].email # contacts[last.created].email

\* C19: the response covers the request. A successful call returns the request's
\* non-null email among emails, its non-null phone among phoneNumbers, and a
\* primaryContactId that names a Primary of the table.
ResponseCoversRequest ==
  Served =>
    /\ last.req.email # JNull => last.req.email.v \in Range(last.resp.emails)
    /\ last.req.phoneNumber # JNull
         => last.req.phoneNumber.v \in Range(last.resp.phoneNumbers)
    /\ last.resp.primaryContatctId \in Ids(contacts)
    /\ contacts[last.resp.primaryContatctId].linkPrecedence = "primary"

\* a lookup whose email and phone are both held by secondaries, not by the primary
ResponseCoversRequestWitness ==
  /\ Served
  /\ last.created = NullId
  /\ last.req.email # JNull
  /\ last.req.phoneNumber # JNull
  /\ contacts[last.resp.primaryContatctId].email # last.req.email
  /\ contacts[last.resp.primaryContatctId].phoneNumber # last.req.phoneNumber

\* C20: no empty records. Every record created through the handler has a non-null
\* email or a non-null phoneNumber.
NoEmptyRecords ==
  \A i \in Ids(contacts) : contacts[i].email # JNull \/ contacts[i].phoneNumber # JNull

\* a record created for a body with an empty email and a phone
NoEmptyRecordsWitness ==
  /\ Served
  /\ last.created # NullId
  /\ last.body.email = Str("")
  /\ contacts[last.created].email = JNull
\* a row that is secondary while another row still has its id as linkedId
HalfMerged(cs) ==
  {i \in Ids(cs) : /\ cs[i].linkPrecedence = "secondary"
                   /\ \E j \in Ids(cs) : cs[j].linkedId = i}

\* C11 Merge atomicity: once a request has failed with a Store call that threw
\* and no request is running, the table holds no row p that is secondary while
\* some row still has linkedId = p.id: the update of p and the re-pointing of
\* the rows that referenced p have both been applied or neither.
MergeAtomicity ==
  (\A p \in Procs : procs[p].pc = "idle") /\ (\E p \in Procs : procs[p].failed)
    => HalfMerged(contacts) = {}

\* what one step may do to the table: every row stays, with its id, email,
\* phoneNumber, createdAt and deletedAt; no secondary becomes primary; a new
\* row has an id no row had
Lifecycle ==
  /\ Len(contacts') >= Len(contacts)
  /\ \A i \in Ids(contacts) :
       /\ contacts'[i].id = contacts[i].id
       /\ contacts'[i].email = contacts[i].email
       /\ contacts'[i].phoneNumber = contacts[i].phoneNumber
       /\ contacts'[i].createdAt = contacts[i].createdAt
       /\ contacts'[i].deletedAt = contacts[i].deletedAt
       /\ contacts[i].linkPrecedence = "secondary"
            => contacts'[i].linkPrecedence = "secondary"
  /\ \A j \in Ids(contacts') \ Ids(contacts) :
       \A i \in Ids(contacts') : i # j => contacts'[i].id # contacts'[j].id

\* C13 Record lifecycle: across every Store call of every request, concurrent
\* ones included, no row is removed, no row changes from secondary to primary,
\* no row's id, email, phoneNumber or createdAt changes (only linkPrecedence,
\* primary to secondary, and linkedId do), and the id of a created row differs
\* from every other id.
RecordLifecycle == [][Lifecycle]_vars

\* a merge at work on a full table: p has been demoted and a row still waits
\* to be re-pointed
RecordLifecycleWitness ==
  \E p \in Procs :
    /\ procs[p].pc = "updateMany"
    /\ Len(contacts) = MaxContacts
    /\ contacts[procs[p].primaryContacts[procs[p].k]].linkPrecedence = "secondary"
    /\ \E j \in Ids(contacts) : contacts[j].linkedId = procs[p].primaryContacts[procs[p].k]

\* C15 One level of indirection under concurrency: with requests interleaved
\* at their Store calls and no Store failure, whenever every started request
\* has returned, the linkedId of every secondary names a row that is primary.
OneLevelUnderConcurrency ==
  (\A p \in Procs : procs[p].pc = "idle")
    => \A i \in Ids(contacts) :
         contacts[i].linkPrecedence = "secondary"
           => /\ contacts[i].linkedId \in Ids(contacts)
              /\ contacts[contacts[i].linkedId].linkPrecedence = "primary"

\* two secondary rows recording the same fact under the same root
DuplicateSecondaries(cs, i, j) ==
  /\ i < j
  /\ cs[i].linkPrecedence = "secondary" /\ cs[j].linkPrecedence = "secondary"
  /\ cs[i].email = cs[j].email
  /\ cs[i].phoneNumber = cs[j].phoneNumber
  /\ cs[i].linkedId = cs[j].linkedId

\* C16 Duplicate-secondary race: two secondaries with the same email, the same
\* phoneNumber and the same linkedId exist only after requests have overlapped;
\* requests served one after the other leave one such row only.
DuplicateSecondaryRace ==
  (\E i, j \in Ids(contacts) : DuplicateSecondaries(contacts, i, j)) => overlapped

\* three requests in all: one created the primary of the group, the other two
\* carried the same new email for it and overlapped; both passed the novelty
\* check and both have returned, each leaving a secondary
DuplicateSecondaryRaceWitness ==
  /\ \A p \in Procs : procs[p].pc = "idle"
  /\ started = 3
  /\ Len(contacts) = 3
  /\ contacts[1].linkPrecedence = "primary"
  /\ DuplicateSecondaries(contacts, 2, 3)
  /\ contacts[2].linkedId = 1
  /\ Truthy(contacts[2].email)
  /\ contacts[2].email # contacts[1].email

====
